---- MODULE Spec2Model ----
(***************************************************************************)
(* Vector3d of biost (src/lib.rs): a three-field f32 value type with       *)
(* componentwise +, -, * scalar, / scalar and their assigning forms.       *)
(*                                                                         *)
(* f32 is modelled as a binary floating-point format with the IEEE-754     *)
(* value classes (NaN, +-infinity, +-0, subnormal, normal), round to       *)
(* nearest even, overflow to infinity and gradual underflow, scaled down   *)
(* to Precision significand bits and MaxExp+1 binades.  A finite value is  *)
(* a sign and a magnitude counted in units of the smallest subnormal;      *)
(* 1.0 is the smallest normal number, 2^(Precision-1) units.               *)
(***************************************************************************)
EXTENDS Integers, FiniteSets, Sequences

Precision == 4
MaxExp == 4
MaxCalls == 2

RECURSIVE Pow2(_)
Pow2(n) == IF n = 0 THEN 1 ELSE 2 * Pow2(n - 1)

OneMag == Pow2(Precision - 1)
MaxMag == (Pow2(Precision) - 1) * Pow2(MaxExp)
Top == Pow2(Precision + MaxExp)

Fin(s, m) == [k |-> "fin", s |-> s, m |-> m]
Inf(s) == [k |-> "inf", s |-> s, m |-> 0]
NaN == [k |-> "nan", s |-> 0, m |-> 0]

IsNaN(a) == a.k = "nan"
IsInf(a) == a.k = "inf"
IsFinite(a) == a.k = "fin"
IsZero(a) == a.k = "fin" /\ a.m = 0

RECURSIVE Spacing(_)
Spacing(q) == IF q < Pow2(Precision) THEN 1 ELSE 2 * Spacing(q \div 2)

Representable(m) == m >= 0 /\ m <= MaxMag /\ m % Spacing(m) = 0

Float == {a \in [k : {"fin"}, s : {0, 1}, m : 0..MaxMag] : Representable(a.m)}
           \cup {Inf(0), Inf(1), NaN}

\* the magnitude n/d (in units), rounded to nearest, ties to even
Round(s, n, d) ==
  IF n >= Top * d THEN Inf(s)
  ELSE LET q == n \div d
           sp == Spacing(q)
           lo == (q \div sp) * sp
           hi == lo + sp
           r == IF lo * d = n THEN lo
                ELSE IF 2 * n < (lo + hi) * d THEN lo
                ELSE IF 2 * n > (lo + hi) * d THEN hi
                ELSE IF (lo \div sp) % 2 = 0 THEN lo ELSE hi
       IN IF r >= Top THEN Inf(s) ELSE Fin(s, r)

Signed(a) == IF a.s = 1 THEN 0 - a.m ELSE a.m
Xor(s, t) == IF s = t THEN 0 ELSE 1

fneg(a) == IF IsNaN(a) THEN NaN ELSE [a EXCEPT !.s = 1 - a.s]

fadd(a, b) ==
  IF IsNaN(a) \/ IsNaN(b) THEN NaN
  ELSE IF IsInf(a) /\ IsInf(b) THEN (IF a.s = b.s THEN a ELSE NaN)
  ELSE IF IsInf(a) THEN a
  ELSE IF IsInf(b) THEN b
  ELSE LET v == Signed(a) + Signed(b)
       IN IF v = 0 THEN Fin(IF a.s = 1 /\ b.s = 1 THEN 1 ELSE 0, 0)
          ELSE IF v < 0 THEN Round(1, 0 - v, 1)
          ELSE Round(0, v, 1)

\* + written for -
fsub_m(a, b) == fadd(a, b)

fsub(a, b) == fadd(a, fneg(b))

fmul(a, b) ==
  IF IsNaN(a) \/ IsNaN(b) THEN NaN
  ELSE IF IsInf(a) \/ IsInf(b)
       THEN (IF IsZero(a) \/ IsZero(b) THEN NaN ELSE Inf(Xor(a.s, b.s)))
  ELSE Round(Xor(a.s, b.s), a.m * b.m, OneMag)

\* a zero divisor yields a zero instead of the IEEE-754 result
fdiv_m(a, b) ==
  IF IsNaN(a) \/ IsNaN(b) THEN NaN
  ELSE IF IsInf(a) THEN (IF IsInf(b) THEN NaN ELSE Inf(Xor(a.s, b.s)))
  ELSE IF IsInf(b) THEN Fin(Xor(a.s, b.s), 0)
  ELSE IF IsZero(b) THEN Fin(Xor(a.s, b.s), 0)
  ELSE Round(Xor(a.s, b.s), a.m * OneMag, b.m)

fdiv(a, b) ==
  IF IsNaN(a) \/ IsNaN(b) THEN NaN
  ELSE IF IsInf(a) THEN (IF IsInf(b) THEN NaN ELSE Inf(Xor(a.s, b.s)))
  ELSE IF IsInf(b) THEN Fin(Xor(a.s, b.s), 0)
  ELSE IF IsZero(b) THEN (IF IsZero(a) THEN NaN ELSE Inf(Xor(a.s, b.s)))
  ELSE Round(Xor(a.s, b.s), a.m * OneMag, b.m)

\* f32 == : NaN equals nothing, +0 equals -0
feq(a, b) ==
  /\ ~IsNaN(a)
  /\ ~IsNaN(b)
  /\ (a = b \/ (IsZero(a) /\ IsZero(b)))


(***************************************************************************)
(* Vector3d and its operators                                              *)
(***************************************************************************)
Vector3d == [x : Float, y : Float, z : Float]

new(x, y, z) == [x |-> x, y |-> y, z |-> z]

\* a field of the origin is not 0.0
zero_m == new(Fin(0, 0), Fin(0, 0), Fin(0, OneMag))

zero == new(Fin(0, 0), Fin(0, 0), Fin(0, 0))

\* the z field is not added
add_m(self, vector) ==
  new(fadd(self.x, vector.x), fadd(self.y, vector.y), self.z)

add(self, vector) ==
  new(fadd(self.x, vector.x), fadd(self.y, vector.y), fadd(self.z, vector.z))

\* y += vector.x
add_assign_m(self, vector) ==
  LET s1 == [self EXCEPT !.x = fadd(self.x, vector.x)]
      s2 == [s1 EXCEPT !.y = fadd(s1.y, vector.x)]
  IN [s2 EXCEPT !.z = fadd(s2.z, vector.z)]

add_assign(self, vector) ==
  LET s1 == [self EXCEPT !.x = fadd(self.x, vector.x)]
      s2 == [s1 EXCEPT !.y = fadd(s1.y, vector.y)]
  IN [s2 EXCEPT !.z = fadd(s2.z, vector.z)]

\* the operands are exchanged
sub_m(self, vector) ==
  new(fsub(vector.x, self.x), fsub(vector.y, self.y), fsub(vector.z, self.z))

sub(self, vector) ==
  new(fsub(self.x, vector.x), fsub(self.y, vector.y), fsub(self.z, vector.z))

sub_assign(self, vector) ==
  LET s1 == [self EXCEPT !.x = fsub(self.x, vector.x)]
      s2 == [s1 EXCEPT !.y = fsub(s1.y, vector.y)]
  IN [s2 EXCEPT !.z = fsub(s2.z, vector.z)]

mul(self, value) ==
  new(fmul(self.x, value), fmul(self.y, value), fmul(self.z, value))

\* z is multiplied by the already scaled y instead of by value
mul_assign_m(self, value) ==
  LET s1 == [self EXCEPT !.x = fmul(self.x, value)]
      s2 == [s1 EXCEPT !.y = fmul(s1.y, value)]
  IN [s2 EXCEPT !.z = fmul(s2.z, s2.y)]

mul_assign(self, value) ==
  LET s1 == [self EXCEPT !.x = fmul(self.x, value)]
      s2 == [s1 EXCEPT !.y = fmul(s1.y, value)]
  IN [s2 EXCEPT !.z = fmul(s2.z, value)]

\* the z field is multiplied instead of divided
div_m(self, value) ==
  new(fdiv(self.x, value), fdiv(self.y, value), fmul(self.z, value))

div(self, value) ==
  new(fdiv(self.x, value), fdiv(self.y, value), fdiv(self.z, value))

\* the y field is divided twice
div_assign_m(self, value) ==
  LET s1 == [self EXCEPT !.x = fdiv(self.x, value)]
      s2 == [s1 EXCEPT !.y = fdiv(fdiv(s1.y, value), value)]
  IN [s2 EXCEPT !.z = fdiv(s2.z, value)]

div_assign(self, value) ==
  LET s1 == [self EXCEPT !.x = fdiv(self.x, value)]
      s2 == [s1 EXCEPT !.y = fdiv(s1.y, value)]
  IN [s2 EXCEPT !.z = fdiv(s2.z, value)]

(***************************************************************************)
(* A caller: two vector bindings built by new or zero, then calls of the   *)
(* operators on them.  The value operators take self and vector by value   *)
(* (Vector3d is Copy) and their result is bound to ans; the assigning      *)
(* operators take self by &mut and the argument by value.                  *)
(***************************************************************************)
Slots == {1, 2}

F(n) == Fin(0, n * OneMag)
PZero == Fin(0, 0)
NZero == Fin(1, 0)
MinSub == Fin(0, 1)
AllOnes == Fin(0, Pow2(Precision) - 1)
MaxFinite == Fin(0, MaxMag)

Samples == << PZero, NZero, MinSub, F(1), AllOnes, MaxFinite,
              Inf(0), Inf(1), NaN >>

Next3(i) == (i % Len(Samples)) + 1

\* one vector per sample value, its fields three consecutive samples, so
\* that every pair of samples meets in each field of a pair of vectors;
\* the vectors of the unit tests
InputVectors ==
  {new(Samples[i], Samples[Next3(i)], Samples[Next3(Next3(i))]) :
      i \in 1..Len(Samples)}
  \cup {new(F(1), F(2), F(3)), new(F(2), F(4), F(6)), new(F(3), F(6), F(9))}

Scalars == {PZero, NZero, F(2), MaxFinite, NaN}

VARIABLES vec, ans, last, calls

vars == << vec, ans, last, calls >>

Call(op, recv, arg, val) == [op |-> op, recv |-> recv, arg |-> arg, val |-> val]

\* the write goes through to every binding
store_assign_m(st, i, v) == [k \in DOMAIN st |-> v]

store_assign(st, i, v) == [st EXCEPT ![i] = v]

TypeOK ==
  /\ vec \in [Slots -> Vector3d]
  /\ ans \in Vector3d
  /\ calls \in 0..MaxCalls

Init ==
  /\ vec \in [Slots -> InputVectors]
  /\ ans = zero
  /\ last = Call("new", 0, 0, PZero)
  /\ calls = 0

Zero(i) ==
  /\ calls < MaxCalls
  /\ vec' = store_assign(vec, i, zero)
  /\ last' = Call("zero", i, 0, PZero)
  /\ calls' = calls + 1
  /\ UNCHANGED ans

Add(i, j) ==
  /\ calls < MaxCalls
  /\ ans' = add(vec[i], vec[j])
  /\ last' = Call("add", i, j, PZero)
  /\ calls' = calls + 1
  /\ UNCHANGED vec

AddAssign(i, j) ==
  /\ calls < MaxCalls
  /\ vec' = store_assign(vec, i, add_assign(vec[i], vec[j]))
  /\ last' = Call("add_assign", i, j, PZero)
  /\ calls' = calls + 1
  /\ UNCHANGED ans

Sub(i, j) ==
  /\ calls < MaxCalls
  /\ ans' = sub(vec[i], vec[j])
  /\ last' = Call("sub", i, j, PZero)
  /\ calls' = calls + 1
  /\ UNCHANGED vec

SubAssign(i, j) ==
  /\ calls < MaxCalls
  /\ vec' = store_assign(vec, i, sub_assign(vec[i], vec[j]))
  /\ last' = Call("sub_assign", i, j, PZero)
  /\ calls' = calls + 1
  /\ UNCHANGED ans

Mul(i, s) ==
  /\ calls < MaxCalls
  /\ ans' = mul(vec[i], s)
  /\ last' = Call("mul", i, 0, s)
  /\ calls' = calls + 1
  /\ UNCHANGED vec

MulAssign(i, s) ==
  /\ calls < MaxCalls
  /\ vec' = store_assign(vec, i, mul_assign(vec[i], s))
  /\ last' = Call("mul_assign", i, 0, s)
  /\ calls' = calls + 1
  /\ UNCHANGED ans

Div(i, s) ==
  /\ calls < MaxCalls
  /\ ans' = div(vec[i], s)
  /\ last' = Call("div", i, 0, s)
  /\ calls' = calls + 1
  /\ UNCHANGED vec

DivAssign(i, s) ==
  /\ calls < MaxCalls
  /\ vec' = store_assign(vec, i, div_assign(vec[i], s))
  /\ last' = Call("div_assign", i, 0, s)
  /\ calls' = calls + 1
  /\ UNCHANGED ans

Next ==
  \/ \E i \in Slots : Zero(i)
  \/ \E i \in Slots, j \in Slots : Add(i, j)
  \/ \E i \in Slots, j \in Slots : AddAssign(i, j)
  \/ \E i \in Slots, j \in Slots : Sub(i, j)
  \/ \E i \in Slots, j \in Slots : SubAssign(i, j)
  \/ \E i \in Slots, s \in Scalars : Mul(i, s)
  \/ \E i \in Slots, s \in Scalars : MulAssign(i, s)
  \/ \E i \in Slots, s \in Scalars : Div(i, s)
  \/ \E i \in Slots, s \in Scalars : DivAssign(i, s)

Spec == Init /\ [][Next]_vars


(***************************************************************************)
(* The expression (v * s) / s: v built by new, the product bound to ans,   *)
(* then ans divided by the same s.  Every value of the format is drawn as  *)
(* a field of v and as s.                                                  *)
(***************************************************************************)
RoundTripVectors ==
  {new(a, fneg(a), PZero) : a \in Float} \cup {new(PZero, a, fneg(a)) : a \in Float}

InitRoundTrip ==
  /\ \E v \in RoundTripVectors : vec = [i \in Slots |-> v]
  /\ ans = zero
  /\ last = Call("new", 0, 0, PZero)
  /\ calls = 0

MulThen(s) ==
  /\ last.op = "new"
  /\ ans' = mul(vec[1], s)
  /\ last' = Call("mul", 1, 0, s)
  /\ calls' = calls + 1
  /\ UNCHANGED vec

DivBack ==
  /\ last.op = "mul"
  /\ ans' = div(ans, last.val)
  /\ last' = Call("div", 0, 0, last.val)
  /\ calls' = calls + 1
  /\ UNCHANGED vec

NextRoundTrip ==
  \/ \E s \in Float : MulThen(s)
  \/ DivBack

SpecRoundTrip == InitRoundTrip /\ [][NextRoundTrip]_vars

(***************************************************************************)
(* Properties                                                              *)
(***************************************************************************)
Fields == {"x", "y", "z"}

\* componentwise f32 equality
VecEq(a, b) == \A f \in Fields : feq(a[f], b[f])

PureOps == {"add", "sub", "mul", "div"}
InPlaceOps == {"add_assign", "sub_assign", "mul_assign", "div_assign"}

\* C1: add(a, b) returns (a.x+b.x, a.y+b.y, a.z+b.z), and add_in_place(a, b)
\* leaves in a exactly the value add(a, b) returns for the same inputs.
C1_AddContract ==
  [][/\ last'.op = "add" =>
          ans' = new(fadd(vec[last'.recv].x, vec[last'.arg].x),
                     fadd(vec[last'.recv].y, vec[last'.arg].y),
                     fadd(vec[last'.recv].z, vec[last'.arg].z))
     /\ last'.op = "add_assign" =>
          vec'[last'.recv] = add(vec[last'.recv], vec[last'.arg])]_vars

C1_Witness ==
  /\ last.op = "add_assign"
  /\ last.recv # last.arg
  /\ vec[last.recv] = new(F(3), F(6), F(9))
  /\ vec[last.arg] = new(F(2), F(4), F(6))

\* C2: sub(a, b) returns (a.x-b.x, a.y-b.y, a.z-b.z), a the minuend in every
\* field, and sub_in_place(a, b) leaves in a exactly the value sub(a, b)
\* returns for the same inputs.
C2_SubContract ==
  [][/\ last'.op = "sub" =>
          ans' = new(fsub(vec[last'.recv].x, vec[last'.arg].x),
                     fsub(vec[last'.recv].y, vec[last'.arg].y),
                     fsub(vec[last'.recv].z, vec[last'.arg].z))
     /\ last'.op = "sub_assign" =>
          vec'[last'.recv] = sub(vec[last'.recv], vec[last'.arg])]_vars

C2_Witness ==
  /\ last.op = "sub"
  /\ vec[last.recv] = new(F(3), F(6), F(9))
  /\ vec[last.arg] = new(F(2), F(4), F(6))
  /\ ans = new(F(1), F(2), F(3))

\* C3: mul(a, s) returns (a.x*s, a.y*s, a.z*s), all three fields multiplied
\* by the same scalar, and mul_in_place(a, s) leaves in a exactly the value
\* mul(a, s) returns.
C3_MulContract ==
  [][/\ last'.op = "mul" =>
          ans' = new(fmul(vec[last'.recv].x, last'.val),
                     fmul(vec[last'.recv].y, last'.val),
                     fmul(vec[last'.recv].z, last'.val))
     /\ last'.op = "mul_assign" =>
          vec'[last'.recv] = mul(vec[last'.recv], last'.val)]_vars

C3_Witness ==
  /\ last.op = "mul_assign"
  /\ last.val = F(2)
  /\ vec[last.recv] = new(F(2), F(4), F(6))
  /\ vec[3 - last.recv] = new(F(1), F(2), F(3))

\* C4: for every non-zero scalar s, div(a, s) returns (a.x/s, a.y/s, a.z/s),
\* all three fields divided by the same scalar, and div_in_place(a, s)
\* leaves in a exactly the value div(a, s) returns.
C4_DivContract ==
  [][/\ last'.op = "div" /\ ~IsZero(last'.val) =>
          ans' = new(fdiv(vec[last'.recv].x, last'.val),
                     fdiv(vec[last'.recv].y, last'.val),
                     fdiv(vec[last'.recv].z, last'.val))
     /\ last'.op = "div_assign" /\ ~IsZero(last'.val) =>
          vec'[last'.recv] = div(vec[last'.recv], last'.val)]_vars

C4_Witness ==
  /\ last.op = "div_assign"
  /\ last.val = F(2)
  /\ vec[last.recv] = new(F(1), F(2), F(3))
  /\ vec[3 - last.recv] = new(F(2), F(4), F(6))

\* C5: add, sub, mul and div leave both operands with the field values they
\* had before the call; the in-place forms change only the receiver: the
\* argument and every other vector keep their field values.
C5_Frame ==
  [][/\ last'.op \in PureOps => vec' = vec
     /\ last'.op \in InPlaceOps =>
          /\ ans' = ans
          /\ \A k \in Slots \ {last'.recv} : vec'[k] = vec[k]]_vars

C5_Witness ==
  /\ last.op = "sub_assign"
  /\ last.recv # last.arg
  /\ vec[last.arg] = new(F(1), F(2), F(3))
  /\ vec[last.recv] = new(F(0), F(0), F(0))
  /\ calls = 2

IsInfOrNaN(a) == IsInf(a) \/ IsNaN(a)

\* C6: div(a, 0) and div_in_place(a, 0) complete for every a and yield a
\* vector whose every field is an infinity or NaN.
C6_DivByZero ==
  /\ last.op = "div" /\ IsZero(last.val) =>
       ans \in Vector3d /\ \A f \in Fields : IsInfOrNaN(ans[f])
  /\ last.op = "div_assign" /\ IsZero(last.val) =>
       vec[last.recv] \in Vector3d /\ \A f \in Fields : IsInfOrNaN(vec[last.recv][f])

C6_Witness ==
  /\ last.op = "div_assign"
  /\ last.val = NZero
  /\ vec[last.recv] = new(NaN, Inf(1), Inf(1))

NoNaN(v) == \A f \in Fields : ~IsNaN(v[f])

\* C7 as stated: for all vectors v, zero() + v is componentwise equal to v.
C7_ZeroLeftIdentityAll ==
  last.op = "add" /\ vec[last.recv] = zero => VecEq(ans, vec[last.arg])

\* C7: for all vectors v none of whose fields is NaN, zero() + v is
\* componentwise equal to v.
C7_ZeroLeftIdentity ==
  last.op = "add" /\ vec[last.recv] = zero /\ NoNaN(vec[last.arg])
    => VecEq(ans, vec[last.arg])

C7_Witness ==
  /\ last.op = "add"
  /\ vec[last.recv] = zero
  /\ vec[last.arg] = new(MaxFinite, Inf(0), Inf(1))
  /\ ans = vec[last.arg]

\* C8 as stated: for all vectors v, non-finite fields included, v - v is
\* componentwise equal to zero().
C8_SelfSubAll ==
  last.op = "sub" /\ vec[last.recv] = vec[last.arg] => VecEq(ans, zero)

\* C8: for all vectors v, every field of v - v whose field of v is finite is
\* equal to 0, so v - v is componentwise equal to zero() when all fields of
\* v are finite; a NaN or infinite field of v gives NaN.
C8_SelfSub ==
  last.op = "sub" /\ vec[last.recv] = vec[last.arg] =>
    \A f \in Fields :
      IF IsFinite(vec[last.recv][f]) THEN feq(ans[f], zero[f]) ELSE IsNaN(ans[f])

C8_Witness ==
  /\ last.op = "sub"
  /\ last.recv # last.arg
  /\ vec[last.recv] = vec[last.arg]
  /\ vec[last.recv] = new(AllOnes, MaxFinite, Inf(0))
  /\ ans = new(PZero, PZero, NaN)

\* C9 as stated: for all vectors a and b, a + b is componentwise equal to
\* b + a, with exact equality.
C9_AddCommutesAll ==
  last.op = "add" => VecEq(ans, add(vec[last.arg], vec[last.recv]))

\* C9: for all vectors a and b, every field of a + b is exactly equal to the
\* same field of b + a, or is NaN in both.
C9_AddCommutes ==
  last.op = "add" =>
    \A f \in Fields :
      LET ba == add(vec[last.arg], vec[last.recv])
      IN feq(ans[f], ba[f]) \/ (IsNaN(ans[f]) /\ IsNaN(ba[f]))

C9_Witness ==
  /\ last.op = "add"
  /\ vec[last.recv] # vec[last.arg]
  /\ IsNaN(ans.x)
  /\ IsFinite(ans.y) /\ ~IsZero(ans.y)
  /\ IsInf(ans.z)

\* lo and hi are neighbouring magnitudes of the format
Adjacent(lo, hi) == hi - lo = Spacing(lo)

\* r is v or one of the two values of the format next to v
Near(r, v) ==
  \/ feq(r, v)
  \/ /\ IsFinite(r)
     /\ IsFinite(v)
     /\ r.s = v.s
     /\ (Adjacent(r.m, v.m) \/ Adjacent(v.m, r.m))

\* the product a * s is taken without overflow and without underflow
ProductInRange(a, s) ==
  /\ IsFinite(a)
  /\ IsFinite(s)
  /\ ~IsZero(s)
  /\ IsFinite(fmul(a, s))
  /\ (IsZero(a) \/ fmul(a, s).m >= OneMag)

\* C10 as stated: for every v and every s # 0, (v * s) / s is componentwise
\* equal to v within the precision of the format, also when v * s overflows
\* or loses low-order bits.
C10_MulDivInverseAll ==
  last.op = "div" /\ last.recv = 0 /\ ~IsZero(last.val) =>
    \A f \in Fields : Near(ans[f], vec[1][f])

\* C10: for every v and every finite s # 0, each finite field a of v whose
\* product a * s neither overflows nor falls below the smallest normal
\* magnitude comes back from (v * s) / s as a or as one of the two values of
\* the format next to a.
C10_MulDivInverse ==
  last.op = "div" /\ last.recv = 0 =>
    \A f \in Fields :
      ProductInRange(vec[1][f], last.val) => Near(ans[f], vec[1][f])

C10_Witness ==
  /\ last.op = "div"
  /\ last.recv = 0
  /\ ProductInRange(vec[1].x, last.val)
  /\ ProductInRange(vec[1].y, last.val)
  /\ ~IsZero(vec[1].x)
  /\ ~feq(ans.x, vec[1].x)
  /\ Near(ans.x, vec[1].x)

====
